---- MODULE Spec2Model ----
(***************************************************************************)
(* Model of tensorflow_federated/python/research/utils/training_loop.py:   *)
(* the training loop run(), its metrics writer _write_metrics, and the     *)
(* checkpoint manager it drives.  One experiment (one checkpoint directory *)
(* and one metrics.csv) is run repeatedly; a run may crash or fail and be  *)
(* started again.                                                          *)
(***************************************************************************)
EXTENDS Integers, Sequences, FiniteSets, TLC

(* ------------------------------ bounds -------------------------------- *)
\* largest value of --total_rounds and of --rounds_per_checkpoint explored
MaxRounds == 3
\* largest value of --rounds_per_eval explored
MaxEvalInterval == 2
\* number of times run() is started on the same experiment
MaxRuns == 3
\* transient faults of iterative_process.next within one run
MaxRetries == 1

(* --------------------------- external inputs --------------------------- *)
\* the client-id lists client_datasets_fn may return for a round
ClientSamples == {{"a", "b"}, {"b", "c"}}

\* the metrics mappings iterative_process.next may return
KerasKey == "keras_training_time_client_sum_sec"
RoundMetricsChoices ==
    { {<<KerasKey, 0>>, <<"loss", 0>>}, {<<"loss", 0>>} }

VARIABLES
    \* flags
    total_rounds, rounds_per_checkpoint, rounds_per_eval,
    \* environment
    persistent,     \* the round whose backend fault never clears, or NoRound
    call_types,     \* Python types of the arguments given to _write_metrics
    \* durable state of the experiment
    store,          \* checkpoint directory: checkpoints in the order written
    metrics_csv,    \* results/<experiment>/metrics.csv
    summary,        \* logdir/<experiment>: the scalar events of this run's writer
    created,        \* directories and files run() has created
    \* the running process
    pc, state, round_num, unique_clients, sampled_clients,
    train_metrics, eval_metrics, result,
    context_stack,  \* the process-wide context stack (default executor)
    \* bookkeeping of the execution (not read by the program)
    runs,           \* number of times run() has been started
    rebuilds,       \* calls of set_default_executor() in this run
    cold,           \* this run found the checkpoint store empty
    saved,          \* save_checkpoint calls of this run, in order
    n_data,         \* client_datasets_fn calls of this run
    n_next,         \* iterative_process.next calls of this run
    n_test_eval,    \* evaluate_fn(use_test_dataset=True) calls of this run
    faulted,        \* rounds that had a transient fault in this run
    completed,      \* rounds whose next() returned in this run
    loop_rows,      \* rounds whose row was written inside the loop, this run
    start_round,    \* round_num right after the checkpoint was loaded
    lost,           \* rounds the aborted runs before this one had completed
    redone,         \* rounds of lost executed again in this run
    results,        \* what each completed run returned, in order
    last_error,     \* kind of the last error raised in this run, or "none"
    setup           \* the arguments of this run and the set-up steps it did

flagVars    == <<total_rounds, rounds_per_checkpoint, rounds_per_eval>>
envVars     == <<persistent, call_types>>
durableVars == <<store, metrics_csv, summary, created>>
procVars    == <<pc, state, round_num, unique_clients, sampled_clients,
                 train_metrics, eval_metrics, result, context_stack>>
histVars    == <<runs, rebuilds, cold, saved, n_data, n_next, n_test_eval,
                 faulted, completed, loop_rows, start_round, lost, redone,
                 results, last_error, setup>>
vars        == <<flagVars, envVars, durableVars, procVars, histVars>>

(* ------------------------------ helpers -------------------------------- *)
Min(a, b) == IF a < b THEN a ELSE b

RECURSIVE SetMax(_)
SetMax(S) ==
    LET x == CHOOSE y \in S : TRUE
    IN  IF S = {x} THEN x
        ELSE LET m == SetMax(S \ {x}) IN IF x > m THEN x ELSE m

\* a Python dict as a set of <<key, value>> pairs
DictKeys(d) == {p[1] : p \in d}
DictUpdate(d, e) == {p \in d : p[1] \notin DictKeys(e)} \cup e
DictPop(d, k) == {p \in d : p[1] # k}
DictGet(d, k) == (CHOOSE p \in d : p[1] = k)[2]

\* the bookkeeping counters stop counting at CounterCap, which no run with at
\* most MaxRetries transient faults reaches
CounterCap == MaxRounds + MaxRetries + 1
Bump(n) == IF n < CounterCap THEN n + 1 ELSE n

\* value of persistent when no round has a persistent fault
NoRound == 0 - 1

(* ------------------------- iterative process --------------------------- *)
\* iterative_process.initialize(): the state no round has been applied to
InitialState == <<>>

\* iterative_process.next(state, data): the state with one more round applied
NextState(s, r, clients) == Append(s, [round |-> r, clients |-> clients])

\* evaluate_fn(state, use_test_dataset)
EvaluateFn(s, test) == [model |-> s, test |-> test]

\* the errors iterative_process.next may raise
TransientErrors ==
    {"FailedPreconditionError", "NotFoundError", "InternalError"}
NextErrors == TransientErrors \cup {"ValueError"}

\* a plausible slip: a bare except
IsCaughtAny(e) == TRUE

\* except (FailedPreconditionError, NotFoundError, InternalError)
IsCaught(e) == e \in TransientErrors

\* what the bookkeeping records of an error: its kind
FaultKind(e) == IF e \in TransientErrors THEN "transient" ELSE e

(* ---------------------------- context stack ---------------------------- *)
NoContext == [kind |-> "none", executor |-> "none", id |-> 0]

\* the context stack of a new process: a default execution context
InitialContextStack ==
    [current  |-> [kind |-> "ExecutionContext", executor |-> "local", id |-> 0],
     installs |-> 0,
     last_arg |-> "none",
     ran_on   |-> NoContext]

\* what set_default_executor may be given
ExecutorArgs == {"none", "ExecutorFactory", "ReferenceExecutor"}

\* the context set_default_executor builds from its argument
ContextFor(arg, n) ==
    CASE arg = "none" ->
           [kind |-> "ExecutionContext", executor |-> "local", id |-> n]
      [] arg = "ExecutorFactory" ->
           [kind |-> "ExecutionContext", executor |-> "given", id |-> n]
      [] arg = "ReferenceExecutor" ->
           [kind |-> "ReferenceExecutor", executor |-> "reference", id |-> n]

\* a plausible slip: the new context is built but the old one stays current
SetDefaultExecutorKeep(cs, arg) ==
    [cs EXCEPT !.installs = Bump(cs.installs), !.last_arg = arg]

\* set_default_executor(arg): the new context replaces the current one
SetDefaultExecutor(cs, arg) ==
    [cs EXCEPT !.current = ContextFor(arg, Bump(cs.installs)),
               !.installs = Bump(cs.installs),
               !.last_arg = arg]

\* a computation is invoked: it runs against the current context
InvokeComputation(cs) == [cs EXCEPT !.ran_on = cs.current]

(* -------------------------- checkpoint manager ------------------------- *)
StoredRounds(st) == {st[i].round : i \in 1..Len(st)}

\* FileCheckpointManager.load_latest_checkpoint
LoadLatestCheckpoint(st) ==
    IF st = <<>>
    THEN [found |-> FALSE, state |-> InitialState, round |-> 0]
    ELSE LET m == SetMax(StoredRounds(st))
             i == CHOOSE j \in 1..Len(st) : st[j].round = m
         IN  [found |-> TRUE, state |-> st[i].state, round |-> m]

\* FileCheckpointManager.save_checkpoint
SaveCheckpoint(st, s, r) ==
    Append(SelectSeq(st, LAMBDA c : c.round # r), [round |-> r, state |-> s])

(* --------------------------- _write_metrics ---------------------------- *)
\* one line of metrics.csv
MetricsRow(train, eval, r) == [round |-> r, train |-> train, eval |-> eval]

\* a plausible slip: the slice keeps one row too many
TruncateInclusive(rows, r) == SubSeq(rows, 1, Min(r + 1, Len(rows)))

\* metrics = metrics[:round_num]: the first round_num lines of the table
Truncate(rows, r) == SubSeq(rows, 1, Min(r, Len(rows)))

\* the table _write_metrics leaves behind (atomic_write_to_csv replaces the file)
WriteMetrics(csv, train, eval, r) ==
    IF csv.exists
    THEN [exists |-> TRUE,
          rows |-> Append(Truncate(csv.rows, r), MetricsRow(train, eval, r))]
    ELSE [exists |-> TRUE, rows |-> <<MetricsRow(train, eval, r)>>]

\* the names of flat_metrics: train/<key>, eval/<key>, round
FlatNames(train, eval) ==
    {<<"train", k>> : k \in DictKeys(train)}
      \cup {<<"eval", k>> : k \in DOMAIN eval}
      \cup {<<"round", "">>}

\* the scalar events of one call, all with step = round_num
SummaryEvents(train, eval, r) == [step |-> r, names |-> FlatNames(train, eval)]

\* the Python types _write_metrics accepts
ValidTypes == [train |-> "dict", eval |-> "dict", round |-> "int"]
TypesOk(types) ==
    types.train = "dict" /\ types.eval = "dict" /\ types.round = "int"

\* a plausible slip: the types are checked after the summary was written
WriteMetricsCallLateCheck(types, csv, summ, train, eval, r) ==
    IF TypesOk(types)
    THEN [raised |-> "none",
          csv |-> WriteMetrics(csv, train, eval, r),
          summary |-> Append(summ, SummaryEvents(train, eval, r))]
    ELSE [raised |-> "TypeError", csv |-> csv,
          summary |-> Append(summ, SummaryEvents(train, eval, r))]

\* _write_metrics: the isinstance checks, the summary scalars, then the table
WriteMetricsCall(types, csv, summ, train, eval, r) ==
    IF ~TypesOk(types)
    THEN [raised |-> "TypeError", csv |-> csv, summary |-> summ]
    ELSE [raised |-> "none",
          csv |-> WriteMetrics(csv, train, eval, r),
          summary |-> Append(summ, SummaryEvents(train, eval, r))]

(* -------------------------------- run() -------------------------------- *)
NoEval == [model |-> <<>>, test |-> FALSE, evaluate_secs |-> 0]

\* what the caller may pass to run(): whether iterative_process is an
\* IterativeProcessPythonAdapter, and whether the two functions are callable
RunArgChoices == [process : BOOLEAN, datasets : BOOLEAN, evaluate : BOOLEAN]
ArgsValid(a) == a.process /\ a.datasets /\ a.evaluate

\* a plausible slip: evaluate_fn is not checked
ValidateInputsNoEvaluate(a) ==
    IF a.process /\ a.datasets THEN "none" ELSE "TypeError"

\* the isinstance and callable checks at the top of run()
ValidateInputs(a) ==
    IF ~a.process THEN "TypeError"
    ELSE IF ~a.datasets THEN "TypeError"
    ELSE IF ~a.evaluate THEN "TypeError"
    ELSE "none"

\* the set-up steps of run(), in order
SetupSteps == <<"initialize", "makedirs", "load_latest_checkpoint", "setup_metrics">>
SetupDone(n) == {SetupSteps[i] : i \in 1..n}

\* what run() has created once the checkpoint directory exists / once
\* _setup_metrics has run
CheckpointDir == {"checkpoints"}
OutputFiles == {"checkpoints", "logdir", "results", "hparams.csv"}

\* a plausible slip: resume at the round of the checkpoint
ResumeRoundSame(loaded_round) == loaded_round

\* round_num += 1 after a checkpoint was loaded
ResumeRound(loaded_round) == loaded_round + 1

\* a plausible slip: the final round is not checkpointed
CheckpointDueNoFinal(r) == r % rounds_per_checkpoint = 0

\* a plausible slip: only the final round is checkpointed
CheckpointDueOnlyFinal(r) == r = total_rounds - 1

\* round_num % rounds_per_checkpoint == 0 or round_num == total_rounds - 1
CheckpointDue(r) ==
    r % rounds_per_checkpoint = 0 \/ r = total_rounds - 1

\* a plausible slip: every round is evaluated
EvalDueAlways(r) == TRUE

\* round_num % rounds_per_eval == 0
EvalDue(r) == r % rounds_per_eval = 0

\* a plausible slip: the test row is keyed by the last training round
TestRoundLast == total_rounds - 1

\* the round number of the row of the test evaluation
TestRound == total_rounds

\* a plausible slip: the retry moves on to the next round
RetryRoundSkip(r) == r + 1

\* continue: the loop restarts without incrementing the round number
RetryRound(r) == r

\* the locals of a process that is not running
Stopped(how) ==
    /\ pc' = how
    /\ state' = <<>>
    /\ round_num' = 0
    /\ unique_clients' = {}
    /\ sampled_clients' = {}
    /\ train_metrics' = {}
    /\ eval_metrics' = NoEval
    /\ context_stack' = InitialContextStack

\* run() is called with arguments it rejects: TypeError before any work
StartRejected ==
    /\ pc \in {"idle", "crashed", "failed", "done"}
    /\ runs < MaxRuns
    /\ \E a \in RunArgChoices :
         /\ ValidateInputs(a) # "none"
         /\ last_error' = ValidateInputs(a)
         /\ setup' = [valid |-> ArgsValid(a), ops |-> SetupDone(0)]
    /\ Stopped("failed")
    /\ result' = <<>>
    /\ runs' = runs + 1
    /\ rebuilds' = 0
    /\ saved' = <<>>
    /\ n_data' = 0
    /\ n_next' = 0
    /\ n_test_eval' = 0
    /\ faulted' = {}
    /\ completed' = {}
    /\ loop_rows' = {}
    /\ lost' = IF pc \in {"crashed", "failed"} THEN lost \cup completed ELSE {}
    /\ redone' = {}
    /\ UNCHANGED <<flagVars, envVars, durableVars, cold, start_round, results>>

\* run(): load_latest_checkpoint raises; the error leaves run()
StartLoadFails ==
    /\ pc \in {"idle", "crashed", "failed", "done"}
    /\ runs < MaxRuns
    /\ \E a \in RunArgChoices :
         /\ ValidateInputs(a) = "none"
         /\ setup' = [valid |-> ArgsValid(a), ops |-> SetupDone(3)]
    /\ created' = created \cup CheckpointDir
    /\ last_error' = "OSError"
    /\ Stopped("failed")
    /\ result' = <<>>
    /\ runs' = runs + 1
    /\ rebuilds' = 0
    /\ saved' = <<>>
    /\ n_data' = 0
    /\ n_next' = 0
    /\ n_test_eval' = 0
    /\ faulted' = {}
    /\ completed' = {}
    /\ loop_rows' = {}
    /\ lost' = IF pc \in {"crashed", "failed"} THEN lost \cup completed ELSE {}
    /\ redone' = {}
    /\ UNCHANGED <<flagVars, envVars, store, metrics_csv, summary, cold,
                   start_round, results>>

\* run() up to the loop: initialize, load the latest checkpoint, set up metrics
Start ==
    /\ pc \in {"idle", "crashed", "failed", "done"}
    /\ runs < MaxRuns
    /\ \E a \in RunArgChoices :
         /\ ValidateInputs(a) = "none"
         /\ setup' = [valid |-> ArgsValid(a), ops |-> SetupDone(4)]
    /\ LET loaded == LoadLatestCheckpoint(store)
           first  == IF loaded.found THEN ResumeRound(loaded.round) ELSE 0
       IN  /\ state' = IF loaded.found THEN loaded.state ELSE InitialState
           /\ round_num' = first
           /\ start_round' = first
           /\ cold' = ~loaded.found
    /\ created' = created \cup OutputFiles
    /\ unique_clients' = {}
    /\ sampled_clients' = {}
    /\ train_metrics' = {}
    /\ eval_metrics' = NoEval
    /\ result' = <<>>
    /\ context_stack' = InitialContextStack
    /\ pc' = "loop"
    /\ runs' = runs + 1
    /\ rebuilds' = 0
    /\ saved' = <<>>
    /\ n_data' = 0
    /\ n_next' = 0
    /\ n_test_eval' = 0
    /\ faulted' = {}
    /\ completed' = {}
    /\ loop_rows' = {}
    /\ lost' = IF pc \in {"crashed", "failed"} THEN lost \cup completed ELSE {}
    /\ redone' = {}
    /\ last_error' = "none"
    /\ UNCHANGED <<flagVars, envVars, store, metrics_csv, results>>
    /\ summary' = <<>>

\* federated_train_data, sampled_clients = client_datasets_fn(round_num)
ClientDatasets ==
    /\ pc = "loop"
    /\ round_num < total_rounds
    /\ \E c \in ClientSamples : sampled_clients' = c
    /\ train_metrics' = {<<"prepare_datasets_secs", 0>>}
    /\ n_data' = Bump(n_data)
    /\ pc' = "next"
    /\ UNCHANGED <<flagVars, envVars, durableVars, state, round_num,
                   unique_clients, eval_metrics, result, context_stack, runs,
                   rebuilds, cold, saved, n_next, n_test_eval, faulted,
                   completed, loop_rows, start_round, lost, redone, results,
                   last_error, setup>>

\* iterative_process.next returns round_metrics; the train metrics of the
\* round are built
NextReturns(round_metrics) ==
    /\ pc = "next"
    /\ round_num # persistent
    /\ LET seen == unique_clients \cup sampled_clients
           tm   == DictUpdate(
                     train_metrics \cup
                       {<<"training_secs", 0>>,
                        <<"model_delta_l2_norm", 0>>,
                        <<"num_unique_clients", Cardinality(seen)>>},
                     round_metrics)
       IN  IF KerasKey \in DictKeys(tm)
           THEN /\ state' = NextState(state, round_num, sampled_clients)
                /\ unique_clients' = seen
                /\ train_metrics' = DictPop(tm, KerasKey)
                /\ context_stack' = InvokeComputation(context_stack)
                /\ pc' = "ckpt"
                /\ UNCHANGED <<round_num, sampled_clients, eval_metrics,
                               last_error>>
           ELSE /\ Stopped("failed")    \* pop() raises KeyError
                /\ last_error' = "KeyError"
    /\ n_next' = Bump(n_next)
    /\ completed' = completed \cup {round_num}
    /\ redone' = redone \cup ({round_num} \cap lost)
    /\ UNCHANGED <<flagVars, envVars, durableVars, result, runs, rebuilds,
                   cold, saved, n_data, n_test_eval, faulted, loop_rows,
                   start_round, lost, results, setup>>

NextOk == \E round_metrics \in RoundMetricsChoices : NextReturns(round_metrics)

\* next raises an error the except clause catches: the executor is rebuilt
\* and the loop continues
NextRaisesCaught(capped) ==
    /\ pc = "next"
    /\ capped => rebuilds < MaxRetries
    /\ \E e \in NextErrors :
         /\ IsCaught(e)
         /\ last_error' = FaultKind(e)
    /\ context_stack' =
         SetDefaultExecutor(InvokeComputation(context_stack), "none")
    /\ rebuilds' = Bump(rebuilds)
    /\ n_next' = Bump(n_next)
    /\ faulted' = faulted \cup {round_num}
    /\ round_num' = RetryRound(round_num)
    /\ pc' = "loop"
    /\ UNCHANGED <<flagVars, envVars, durableVars, state, unique_clients,
                   sampled_clients, train_metrics, eval_metrics, result, runs,
                   cold, saved, n_data, n_test_eval, completed, loop_rows,
                   start_round, lost, redone, results, setup>>

\* next raises FailedPreconditionError, NotFoundError or InternalError
NextTransient == NextRaisesCaught(TRUE)

\* next raises any other error: it leaves run()
NextFatal ==
    /\ pc = "next"
    /\ \E e \in NextErrors :
         /\ ~IsCaught(e)
         /\ last_error' = FaultKind(e)
    /\ Stopped("failed")
    /\ n_next' = Bump(n_next)
    /\ UNCHANGED <<flagVars, envVars, durableVars, result, runs, rebuilds,
                   cold, saved, n_data, n_test_eval, faulted, completed,
                   loop_rows, start_round, lost, redone, results, setup>>

\* the checkpoint step of a round
Checkpoint ==
    /\ pc = "ckpt"
    /\ IF CheckpointDue(round_num)
       THEN /\ store' = SaveCheckpoint(store, state, round_num)
            /\ saved' = Append(saved, [round |-> round_num, state |-> state])
            /\ train_metrics' =
                 DictUpdate(train_metrics, {<<"save_checkpoint_secs", 0>>})
       ELSE UNCHANGED <<store, saved, train_metrics>>
    /\ pc' = "eval"
    /\ UNCHANGED <<flagVars, envVars, metrics_csv, summary, created, state,
                   round_num, unique_clients, sampled_clients, eval_metrics,
                   result, context_stack, runs, rebuilds, cold, n_data, n_next,
                   n_test_eval, faulted, completed, loop_rows, start_round,
                   lost, redone, results, last_error, setup>>

\* save_checkpoint raises: the error leaves run(), nothing is saved
CheckpointFails ==
    /\ pc = "ckpt"
    /\ CheckpointDue(round_num)
    /\ Stopped("failed")
    /\ last_error' = "OSError"
    /\ UNCHANGED <<flagVars, envVars, durableVars, result, runs, rebuilds,
                   cold, saved, n_data, n_next, n_test_eval, faulted,
                   completed, loop_rows, start_round, lost, redone, results,
                   setup>>

\* the evaluation step of a round: evaluate_fn(state, use_test_dataset=False)
Evaluate ==
    /\ pc = "eval"
    /\ IF EvalDue(round_num)
       THEN /\ eval_metrics' = EvaluateFn(state, FALSE) @@ [evaluate_secs |-> 0]
            /\ pc' = "write"
            /\ UNCHANGED round_num
       ELSE /\ round_num' = round_num + 1
            /\ pc' = "loop"
            /\ UNCHANGED eval_metrics
    /\ UNCHANGED <<flagVars, envVars, durableVars, state, unique_clients,
                   sampled_clients, train_metrics, result, context_stack,
                   histVars>>

\* evaluate_fn raises, in the loop or after it: the error leaves run()
EvaluateFails ==
    /\ \/ pc = "eval" /\ EvalDue(round_num)
       \/ pc = "loop" /\ ~(round_num < total_rounds)
    /\ Stopped("failed")
    /\ last_error' = "ValueError"
    /\ UNCHANGED <<flagVars, envVars, durableVars, result, runs, rebuilds,
                   cold, saved, n_data, n_next, n_test_eval, faulted,
                   completed, loop_rows, start_round, lost, redone, results,
                   setup>>

\* _write_metrics(train_metrics, eval_metrics, round_num, ...); round_num += 1
WriteRound ==
    /\ pc = "write"
    /\ LET out == WriteMetricsCall(call_types, metrics_csv, summary,
                                   train_metrics, eval_metrics, round_num)
       IN  /\ out.raised = "none"
           /\ metrics_csv' = out.csv
           /\ summary' = out.summary
    /\ loop_rows' = loop_rows \cup {round_num}
    /\ round_num' = round_num + 1
    /\ pc' = "loop"
    /\ UNCHANGED <<flagVars, envVars, store, created, state, unique_clients,
                   sampled_clients, train_metrics, eval_metrics, result,
                   context_stack, runs, rebuilds, cold, saved, n_data, n_next,
                   n_test_eval, faulted, completed, start_round, lost, redone,
                   results, last_error, setup>>

\* after the loop: test_metrics = evaluate_fn(state, use_test_dataset=True)
FinalEvaluate ==
    /\ pc = "loop"
    /\ ~(round_num < total_rounds)
    /\ eval_metrics' = EvaluateFn(state, TRUE) @@ [evaluate_secs |-> 0]
    /\ n_test_eval' = n_test_eval + 1
    /\ pc' = "final_write"
    /\ UNCHANGED <<flagVars, envVars, durableVars, state, round_num,
                   unique_clients, sampled_clients, train_metrics, result,
                   context_stack, runs, rebuilds, cold, saved, n_data, n_next,
                   faulted, completed, loop_rows, start_round, lost, redone,
                   results, last_error, setup>>

\* _write_metrics({}, test_metrics, total_rounds, ...); return state
FinalWrite ==
    /\ pc = "final_write"
    /\ LET out == WriteMetricsCall(call_types, metrics_csv, summary,
                                   {}, eval_metrics, TestRound)
       IN  /\ out.raised = "none"
           /\ metrics_csv' = out.csv
           /\ summary' = out.summary
    /\ result' = state
    /\ results' = Append(results, state)
    /\ pc' = "done"
    /\ UNCHANGED <<flagVars, envVars, store, created, state, round_num,
                   unique_clients, sampled_clients, train_metrics,
                   eval_metrics, context_stack, runs, rebuilds, cold, saved,
                   n_data, n_next, n_test_eval, faulted, completed, loop_rows,
                   start_round, lost, redone, last_error, setup>>

\* the metrics writer raises while reading or replacing metrics.csv: the
\* scalars of the call are already in the summary, the table is as it was
WriteFails ==
    /\ pc \in {"write", "final_write"}
    /\ summary' =
         Append(summary,
                SummaryEvents(IF pc = "write" THEN train_metrics ELSE {},
                              eval_metrics,
                              IF pc = "write" THEN round_num ELSE TestRound))
    /\ Stopped("failed")
    /\ last_error' = "OSError"
    /\ UNCHANGED <<flagVars, envVars, store, metrics_csv, created, result,
                   runs, rebuilds, cold, saved, n_data, n_next, n_test_eval,
                   faulted, completed, loop_rows, start_round, lost, redone,
                   results, setup>>

\* the process dies between two operations; only the files survive
Crash ==
    /\ pc \in {"loop", "next", "ckpt", "eval", "write", "final_write"}
    /\ Stopped("crashed")
    /\ UNCHANGED <<flagVars, envVars, durableVars, result, histVars>>

\* the flags, and a process that has not been started
NotStarted ==
    /\ total_rounds \in 0..MaxRounds
    /\ rounds_per_checkpoint \in 1..MaxRounds
    /\ rounds_per_eval \in 1..MaxEvalInterval
    /\ call_types = ValidTypes
    /\ metrics_csv = [exists |-> FALSE, rows |-> <<>>]
    /\ summary = <<>>
    /\ created = {}
    /\ pc = "idle"
    /\ state = <<>>
    /\ round_num = 0
    /\ unique_clients = {}
    /\ sampled_clients = {}
    /\ train_metrics = {}
    /\ eval_metrics = NoEval
    /\ result = <<>>
    /\ context_stack = InitialContextStack
    /\ runs = 0
    /\ rebuilds = 0
    /\ cold = FALSE
    /\ saved = <<>>
    /\ n_data = 0
    /\ n_next = 0
    /\ n_test_eval = 0
    /\ faulted = {}
    /\ completed = {}
    /\ loop_rows = {}
    /\ start_round = 0
    /\ lost = {}
    /\ redone = {}
    /\ results = <<>>
    /\ last_error = "none"
    /\ setup = [valid |-> TRUE, ops |-> {}]

\* a new experiment: no checkpoint, no metrics.csv
Init ==
    /\ store = <<>>
    /\ persistent = NoRound
    /\ NotStarted

Next ==
    \/ Start
    \/ StartRejected
    \/ StartLoadFails
    \/ ClientDatasets
    \/ NextOk
    \/ NextTransient
    \/ NextFatal
    \/ Checkpoint
    \/ CheckpointFails
    \/ Evaluate
    \/ EvaluateFails
    \/ WriteRound
    \/ WriteFails
    \/ FinalEvaluate
    \/ FinalWrite
    \/ Crash

Spec == Init /\ [][Next]_vars

(* ------------- run() started on an arbitrary checkpoint directory ------ *)
\* the state a checkpoint of round c holds: rounds 0..c applied
StateAfter(c) == [i \in 1..(c + 1) |-> [round |-> i - 1, clients |-> {"a", "b"}]]

\* directory listings: checkpoints of distinct rounds, in any order
Listings ==
    UNION { {l \in [1..n -> 0..(MaxRounds - 1)] :
               \A i, j \in 1..n : i # j => l[i] # l[j]} : n \in 0..MaxRounds }

InitLoad ==
    /\ \E l \in Listings :
         store = [i \in 1..Len(l) |-> [round |-> l[i], state |-> StateAfter(l[i])]]
    /\ persistent = NoRound
    /\ NotStarted

NextLoad ==
    \/ Start
    \/ ClientDatasets

SpecLoad == InitLoad /\ [][NextLoad]_vars

(* --------------------- _write_metrics called directly ------------------ *)
\* the Python types a caller may pass for train_metrics, eval_metrics, round_num
ArgTypes ==
    [train : {"dict", "list", "NoneType"},
     eval  : {"dict", "list", "NoneType"},
     round : {"int", "float", "str"}]

\* a metrics.csv with the rows of rounds 0..k-1
TableOf(k) ==
    [exists |-> TRUE, rows |-> [i \in 1..k |-> MetricsRow({}, NoEval, i - 1)]]

\* the caller is about to call _write_metrics on some metrics file and
\* summary writer
InitWrite ==
    /\ total_rounds = MaxRounds
    /\ rounds_per_checkpoint = 1
    /\ rounds_per_eval = 1
    /\ persistent = NoRound
    /\ call_types \in ArgTypes
    /\ store = <<>>
    /\ \/ metrics_csv = [exists |-> FALSE, rows |-> <<>>]
       \/ \E k \in 0..MaxRounds : metrics_csv = TableOf(k)
    /\ summary \in {<<>>, <<SummaryEvents({}, NoEval, 0)>>}
    /\ created = {}
    /\ pc = "call"
    /\ state = <<>>
    /\ round_num \in 0..MaxRounds
    /\ unique_clients = {}
    /\ sampled_clients = {}
    /\ train_metrics \in RoundMetricsChoices
    /\ eval_metrics = NoEval
    /\ result = <<>>
    /\ context_stack = InitialContextStack
    /\ runs = 0
    /\ rebuilds = 0
    /\ cold = FALSE
    /\ saved = <<>>
    /\ n_data = 0
    /\ n_next = 0
    /\ n_test_eval = 0
    /\ faulted = {}
    /\ completed = {}
    /\ loop_rows = {}
    /\ start_round = 0
    /\ lost = {}
    /\ redone = {}
    /\ results = <<>>
    /\ last_error = "none"
    /\ setup = [valid |-> TRUE, ops |-> {}]

\* _write_metrics(train_metrics, eval_metrics, round_num, summary_writer,
\* metrics_file) returns or raises
CallWriteMetrics ==
    /\ pc = "call"
    /\ LET out == WriteMetricsCall(call_types, metrics_csv, summary,
                                   train_metrics, eval_metrics, round_num)
       IN  /\ metrics_csv' = out.csv
           /\ summary' = out.summary
           /\ last_error' = out.raised
           /\ pc' = IF out.raised = "none" THEN "returned" ELSE "raised"
    /\ UNCHANGED <<flagVars, envVars, store, created, state, round_num,
                   unique_clients, sampled_clients, train_metrics,
                   eval_metrics, result, context_stack, runs, rebuilds, cold,
                   saved, n_data, n_next, n_test_eval, faulted, completed,
                   loop_rows, start_round, lost, redone, results, setup>>

NextWrite == CallWriteMetrics

SpecWrite == InitWrite /\ [][NextWrite]_vars

(* ------------------------- set_default_executor ------------------------ *)
\* number of set_default_executor calls explored
MaxInstalls == 5

\* a process that has only its context stack
InitExecutor ==
    /\ store = <<>>
    /\ persistent = NoRound
    /\ NotStarted

\* set_default_executor(arg), for each kind of argument
InstallExecutor ==
    /\ context_stack.installs < MaxInstalls
    /\ \E arg \in ExecutorArgs :
         context_stack' = SetDefaultExecutor(context_stack, arg)
    /\ UNCHANGED <<flagVars, envVars, durableVars, pc, state, round_num,
                   unique_clients, sampled_clients, train_metrics,
                   eval_metrics, result, histVars>>

\* a computation is invoked
RunComputation ==
    /\ context_stack' = InvokeComputation(context_stack)
    /\ UNCHANGED <<flagVars, envVars, durableVars, pc, state, round_num,
                   unique_clients, sampled_clients, train_metrics,
                   eval_metrics, result, histVars>>

NextExecutor ==
    \/ InstallExecutor
    \/ RunComputation

SpecExecutor == InitExecutor /\ [][NextExecutor]_vars

(* ---------- one run without crash or fatal error, any number of -------- *)
(* ---------- transient faults                                    -------- *)
\* a metrics mapping of next() that has the key run() pops
KeyedMetrics == {<<KerasKey, 0>>, <<"loss", 0>>}

\* a new experiment; next() may fail for ever on one round
InitLive ==
    /\ store = <<>>
    /\ persistent \in {NoRound} \cup (0..(MaxRounds - 1))
    /\ NotStarted

\* run() is called once
StartOnce == runs = 0 /\ Start

\* next() returns (never on the round whose fault is persistent)
NextOkKeyed == NextReturns(KeyedMetrics)

\* next() raises a transient error, with no limit on how often
RetryForever == NextRaisesCaught(FALSE)

NextLive ==
    \/ StartOnce
    \/ ClientDatasets
    \/ NextOkKeyed
    \/ RetryForever
    \/ Checkpoint
    \/ Evaluate
    \/ WriteRound
    \/ FinalEvaluate
    \/ FinalWrite

\* every operation of run() returns or raises; a next() that can succeed
\* does so after finitely many faults
SpecLive ==
    /\ InitLive
    /\ [][NextLive]_vars
    /\ WF_vars(StartOnce)
    /\ WF_vars(ClientDatasets)
    /\ SF_vars(NextOkKeyed)
    /\ WF_vars(NextOkKeyed \/ RetryForever)
    /\ WF_vars(Checkpoint)
    /\ WF_vars(Evaluate)
    /\ WF_vars(WriteRound)
    /\ WF_vars(FinalEvaluate)
    /\ WF_vars(FinalWrite)

(* ------------------------------ properties ----------------------------- *)
Rows == metrics_csv.rows

RowsOf(r) == {i \in 1..Len(Rows) : Rows[i].round = r}

Running == pc \in {"loop", "next", "ckpt", "eval", "write", "final_write"}

\* C1: when run() returns, every round that had a transient fault in this run
\* (and is due for evaluation) has exactly one row in metrics.csv.
C1_RetryOneRow ==
    pc = "done" =>
      \A n \in faulted :
        (n < total_rounds /\ n % rounds_per_eval = 0) =>
          Cardinality(RowsOf(n)) = 1

\* C2: no two rows of metrics.csv have the same round number.
C2_OneRowPerRound ==
    \A i, j \in 1..Len(Rows) : i # j => Rows[i].round # Rows[j].round

StrictlyIncreasing(rows) ==
    \A i \in 1..(Len(rows) - 1) : rows[i].round < rows[i + 1].round

\* C3: a call of _write_metrics for round r on an existing table with strictly
\* increasing rounds leaves the rows with round < r, in order, followed by the
\* new row.
C3_UpsertIsFilterAppend ==
    [][ (pc \in {"write", "final_write"} /\ pc' \in {"loop", "done"}
           /\ metrics_csv.exists /\ StrictlyIncreasing(Rows))
        => LET r   == IF pc = "write" THEN round_num ELSE total_rounds
               new == metrics_csv'.rows[Len(metrics_csv'.rows)]
           IN  /\ new.round = r
               /\ metrics_csv'.rows =
                    Append(SelectSeq(Rows, LAMBDA row : row.round < r), new)
      ]_vars

\* C4: started on an empty checkpoint store, run() begins with the initial
\* state at round 0; otherwise it begins with the state of the checkpoint of
\* the greatest round M, and the first round it executes is M + 1.
C4_CheckpointSelection ==
    pc \in {"loop", "next"} =>
      IF store = <<>>
      THEN state = InitialState /\ round_num = 0
      ELSE \E i \in 1..Len(store) :
             /\ \A j \in 1..Len(store) : store[j].round <= store[i].round
             /\ state = store[i].state
             /\ round_num = store[i].round + 1

C4_Witness ==
    /\ pc = "next"
    /\ n_data = 1
    /\ Len(store) >= 2
    /\ store[1].round > store[2].round
    /\ round_num = store[1].round + 1

\* C5: next() and save_checkpoint are only ever invoked for a round greater
\* than every stored checkpoint's round, and a stored checkpoint never changes.
C5_CheckpointedNeverRedone ==
    [][ /\ (n_next' = n_next + 1) =>
             \A c \in StoredRounds(store) : round_num > c
        /\ (Len(saved') = Len(saved) + 1) =>
             \A c \in StoredRounds(store) : saved'[Len(saved')].round > c
        /\ \A i \in 1..Len(store) : Len(store') >= i /\ store'[i] = store[i]
      ]_vars

C5_Witness ==
    /\ runs >= 2
    /\ store # <<>>
    /\ n_next >= 1
    /\ Len(saved) >= 1

\* C6 as claimed: at most rounds_per_checkpoint - 1 rounds that the aborted
\* run had completed are executed again after the restart.
C6_LossBelowInterval == Cardinality(redone) <= rounds_per_checkpoint - 1

\* C6 (amended): at most rounds_per_checkpoint rounds that the aborted run had
\* completed are executed again after the restart.
C6_LossAtMostInterval == Cardinality(redone) <= rounds_per_checkpoint

C6_Witness ==
    /\ rounds_per_checkpoint >= 2
    /\ Cardinality(redone) = rounds_per_checkpoint

\* C7: an uninterrupted cold-start run saves a checkpoint after round r iff
\* r % rounds_per_checkpoint = 0 or r = total_rounds - 1, once each, in order,
\* with the state the round produced.
C7_CheckpointCadence ==
    (pc = "done" /\ cold) =>
      LET due == {r \in 0..(total_rounds - 1) :
                    r % rounds_per_checkpoint = 0 \/ r = total_rounds - 1}
      IN  /\ {saved[i].round : i \in 1..Len(saved)} = due
          /\ Len(saved) = Cardinality(due)
          /\ \A i \in 1..Len(saved) :
               /\ Len(result) >= saved[i].round + 1
               /\ saved[i].state = SubSeq(result, 1, saved[i].round + 1)

C7_Witness ==
    /\ pc = "done"
    /\ cold
    /\ faulted # {}
    /\ \E i \in 1..Len(saved) : saved[i].round % rounds_per_checkpoint # 0
    /\ \E r \in 0..(total_rounds - 1) :
         \A i \in 1..Len(saved) : saved[i].round # r

\* the runs that had completed before the current one was started
PriorCompletions == IF pc = "done" THEN Len(results) - 1 ELSE Len(results)

\* C8: once a run has completed (total_rounds >= 1), a later run calls neither
\* client_datasets_fn nor next, saves no checkpoint, and returns the state the
\* first one returned.
C8_ResumptionIdempotent ==
    total_rounds >= 1 =>
      /\ PriorCompletions >= 1 => (n_data = 0 /\ n_next = 0 /\ saved = <<>>)
      /\ \A i \in 1..Len(results) : results[i] = results[1]

C8_Witness ==
    /\ total_rounds >= 2
    /\ pc = "done"
    /\ Len(results) >= 2

\* C9: when run() returns, the last row has round = total_rounds, no train
\* metrics and the metrics of evaluate_fn(state, use_test_dataset=True); rows
\* written in the loop have round < total_rounds; the test evaluation happens
\* once per completed run and only after the loop.
C9_FinalSentinel ==
    /\ pc = "done" =>
         /\ Len(Rows) >= 1
         /\ Rows[Len(Rows)].round = total_rounds
         /\ Rows[Len(Rows)].train = {}
         /\ Rows[Len(Rows)].eval = EvaluateFn(result, TRUE) @@ [evaluate_secs |-> 0]
         /\ n_test_eval = 1
    /\ \A r \in loop_rows : r < total_rounds
    /\ (Running /\ round_num < total_rounds) => n_test_eval = 0

C9_Witness ==
    /\ pc = "done"
    /\ total_rounds >= 2
    /\ Cardinality(loop_rows) >= 2
    /\ runs >= 2

\* C10: the num_unique_clients metric of a round is the number of distinct
\* client ids over all rounds that produced the state, rounds 0..r.
C10_ClientCountUnion ==
    pc = "ckpt" =>
      DictGet(train_metrics, "num_unique_clients") =
        Cardinality(UNION {state[i].clients : i \in 1..Len(state)})

\* C11: a call of _write_metrics whose train_metrics or eval_metrics is not a
\* dict, or whose round_num is not an int, raises TypeError and leaves
\* metrics.csv (absent or present) and the summary stream as they were.
C11_MalformedRejected ==
    [][ (pc = "call" /\ pc' # "call" /\ ~TypesOk(call_types))
        => /\ pc' = "raised"
           /\ last_error' = "TypeError"
           /\ metrics_csv' = metrics_csv
           /\ summary' = summary
      ]_vars

C11_Witness ==
    /\ pc = "raised"
    /\ call_types.train # "dict"
    /\ call_types.round = "int"
    /\ metrics_csv.exists
    /\ Len(Rows) > round_num
    /\ summary # <<>>

\* C12: a call of run() with an iterative_process of the wrong type or a
\* non-callable client_datasets_fn or evaluate_fn raises TypeError having done
\* none of the set-up steps (initialize, makedirs, load, setup_metrics), and
\* leaves the checkpoints, metrics.csv, the summary and the directories alone.
C12_RejectBeforeWork ==
    [][ (runs' # runs /\ ~setup'.valid)
        => /\ pc' = "failed"
           /\ last_error' = "TypeError"
           /\ setup'.ops = {}
           /\ UNCHANGED <<store, metrics_csv, summary, created>>
           /\ saved' = <<>> /\ n_data' = 0 /\ n_next' = 0 /\ n_test_eval' = 0
      ]_vars

C12_Witness ==
    /\ pc = "failed"
    /\ ~setup.valid
    /\ last_error = "TypeError"
    /\ store # <<>>
    /\ metrics_csv.exists
    /\ runs >= 2

\* C13: an error of next() other than the three transient ones, and any error
\* of checkpoint load or save, evaluate_fn or the metrics writer, ends run()
\* with that error: the step rebuilds no executor, saves no checkpoint and
\* writes no row, and nothing more happens until run() is called again.
C13_FatalErrors ==
    [][ /\ (last_error' \notin {"none", "transient"}
              /\ (pc # "failed" \/ runs' # runs))
           => /\ pc' = "failed"
              /\ UNCHANGED <<store, metrics_csv>>
              /\ runs' = runs =>
                   UNCHANGED <<rebuilds, saved, loop_rows, n_data, n_test_eval>>
              /\ runs' # runs =>
                   (rebuilds' = 0 /\ saved' = <<>> /\ n_data' = 0 /\ n_next' = 0)
        /\ pc = "failed" => runs' = runs + 1
      ]_vars

C13_Witness ==
    /\ pc = "failed"
    /\ last_error = "ValueError"
    /\ faulted # {}
    /\ completed = {}
    /\ rebuilds >= 1

\* C14: after set_default_executor(x) with a ReferenceExecutor x the current
\* context is x; after set_default_executor() it is a new default
\* ExecutionContext, not the context installed before; a computation invoked
\* afterwards runs in the current context.
C14_ExecutorReplaced ==
    [][ /\ (context_stack'.installs # context_stack.installs)
           => /\ context_stack'.current # context_stack.current
              /\ context_stack'.current.id = context_stack'.installs
              /\ context_stack'.last_arg = "ReferenceExecutor"
                   => /\ context_stack'.current.kind = "ReferenceExecutor"
                      /\ context_stack'.current.executor = "reference"
              /\ context_stack'.last_arg = "none"
                   => /\ context_stack'.current.kind = "ExecutionContext"
                      /\ context_stack'.current.executor = "local"
        /\ (context_stack'.ran_on # context_stack.ran_on)
           => context_stack'.ran_on = context_stack'.current
      ]_vars

C14_Witness ==
    /\ context_stack.installs >= 2
    /\ context_stack.last_arg = "none"
    /\ context_stack.ran_on = context_stack.current
    /\ context_stack.current.kind = "ExecutionContext"
    /\ context_stack.current.id = context_stack.installs

\* C15: the step in which next() raises a transient error leaves round_num,
\* state, unique_clients, the checkpoints and metrics.csv unchanged and
\* installs exactly one new default executor; the loop then calls
\* client_datasets_fn for the same round and next() with the same state.
C15_TransientFrame ==
    [][ /\ (rebuilds' = rebuilds + 1)
           => /\ UNCHANGED <<round_num, state, unique_clients, store,
                             metrics_csv>>
              /\ context_stack'.installs = context_stack.installs + 1
              /\ context_stack'.current # context_stack.current
              /\ pc' = "loop"
              /\ round_num' < total_rounds
        /\ (pc = "loop" /\ round_num < total_rounds /\ pc' \notin {"loop", "crashed"})
           => /\ pc' = "next"
              /\ n_data' = n_data + 1
              /\ UNCHANGED <<round_num, state, unique_clients>>
      ]_vars

C15_Witness ==
    /\ pc = "next"
    /\ round_num \in faulted
    /\ round_num >= 1
    /\ rebuilds >= 1
    /\ Len(state) = round_num
    /\ n_data >= 3

\* C16: with no fatal error and a next() that succeeds after finitely many
\* transient faults on every round, run() eventually leaves the loop with
\* round_num = total_rounds, evaluates on the test set and returns; if next()
\* faults on every attempt of round N, run() never returns and round_num
\* stays N for ever.
C16_Termination ==
    /\ (persistent \notin 0..(total_rounds - 1))
         => <>(pc = "done" /\ round_num = total_rounds /\ n_test_eval = 1)
    /\ (persistent \in 0..(total_rounds - 1))
         => /\ <>[](round_num = persistent /\ pc \in {"loop", "next"})
            /\ [](pc # "done")

C16_Witness ==
    /\ pc = "done"
    /\ total_rounds >= 2
    /\ rebuilds > MaxRetries + 1
    /\ Cardinality(faulted) >= 2

\* C17: in the loop a round r is evaluated (on the validation data, with the
\* state the round produced) and gets a row iff r % rounds_per_eval = 0; the
\* train metrics of any other round are never written.
C17_EvalCadence ==
    /\ pc \in {"loop", "next", "final_write", "done"}
         => loop_rows = {r \in completed : r % rounds_per_eval = 0}
    /\ pc = "write"
         => /\ round_num % rounds_per_eval = 0
            /\ eval_metrics = EvaluateFn(state, FALSE) @@ [evaluate_secs |-> 0]
            /\ Len(state) = round_num + 1
    /\ (Running /\ eval_metrics # NoEval /\ ~eval_metrics.test)
         => (Len(eval_metrics.model) - 1) % rounds_per_eval = 0
    /\ \A i \in 1..Len(Rows) :
         Rows[i].train # {} =>
           /\ Rows[i].round % rounds_per_eval = 0
           /\ ~Rows[i].eval.test
           /\ Len(Rows[i].eval.model) = Rows[i].round + 1

C17_Witness ==
    /\ pc = "loop"
    /\ rounds_per_eval = 2
    /\ completed = {0, 1, 2}
    /\ loop_rows = {0, 2}
    /\ Len(Rows) = 2

\* C18: a row of a loop round r that is due for a checkpoint is in metrics.csv
\* only if the store holds a checkpoint of round r, and _write_metrics for
\* such a round starts only after its checkpoint was saved.
C18_CheckpointBeforeMetrics ==
    /\ \A i \in 1..Len(Rows) :
         LET r == Rows[i].round
         IN  (r < total_rounds
                /\ (r % rounds_per_checkpoint = 0 \/ r = total_rounds - 1))
             => r \in StoredRounds(store)
    /\ (pc = "write"
          /\ (round_num % rounds_per_checkpoint = 0
                \/ round_num = total_rounds - 1))
         => /\ round_num \in StoredRounds(store)
            /\ saved # <<>>
            /\ saved[Len(saved)] = [round |-> round_num, state |-> state]

\* a checkpoint of an evaluated round without its row: the run stopped
\* between save_checkpoint and _write_metrics
C18_Witness ==
    /\ pc = "crashed"
    /\ store # <<>>
    /\ \E j \in 1..Len(store) :
         /\ store[j].round >= 1
         /\ store[j].round % rounds_per_eval = 0
         /\ RowsOf(store[j].round) = {}
         /\ RowsOf(0) # {}

\* a sequence of round applications 0, 1, .., Len - 1, each once, in order
RoundsInOrder(s) == \A i \in 1..Len(s) : s[i].round = i - 1

\* C19: at the top of the loop the state is the result of the rounds
\* 0..round_num-1, each applied once; the checkpoint of round c holds the
\* state after rounds 0..c; run() returns the state after total_rounds rounds.
C19_StateInStep ==
    /\ pc \in {"loop", "next"}
         => (Len(state) = round_num /\ RoundsInOrder(state))
    /\ \A j \in 1..Len(store) :
         /\ Len(store[j].state) = store[j].round + 1
         /\ RoundsInOrder(store[j].state)
    /\ pc = "done"
         => (Len(result) = total_rounds /\ RoundsInOrder(result))

C19_Witness ==
    /\ pc = "done"
    /\ runs >= 2
    /\ ~cold
    /\ faulted # {}
    /\ completed # {}
    /\ Len(result) = MaxRounds

\* C20: whenever next() returns for a round, the loop goes on to the
\* checkpoint step of that round with the new state, whatever metrics next()
\* returned.
C20_SuccessfulRoundAdvances ==
    [][ (completed' # completed /\ runs' = runs)
        => /\ pc' = "ckpt"
           /\ Len(state') = Len(state) + 1
      ]_vars

====
